---- MODULE Spec2Model ----
(***************************************************************************)
(* TEpollSocket (src/tepollsocket.cpp): the per-connection socket handle   *)
(* of the epoll based server.  The model covers the send queue and the     *)
(* send() write loop, the recv() read loop, the request entry points that  *)
(* delegate to TEpoll, and the deleting flag / worker counter protocol of  *)
(* deleteLater().                                                          *)
(***************************************************************************)
EXTENDS Integers, Sequences, FiniteSets, TLC

\* ------------------------------------------------------------------ bounds
\* Number of send buffers ever handed to enqueueSendData().
MaxBufs == 2
\* Largest in-memory payload (arrayBuffer) of one send buffer, in bytes.
MaxLen == 2
\* Size of the body file of a file-backed send buffer, in bytes.
MaxFile == 2
\* Chunk size used by the send and receive loops (sendBufSize, recvBufSize).
ChunkSize == 2
\* Bytes the peer sends on the connection over its lifetime.
MaxIn == 3
\* Worker threads that take a working reference to the handle.
NumWorkers == 2
\* Threads that call sendData() / disconnect() / switchToWebSocket().
NumRequesters == 2
\* Requests handed to TEpoll over the handle's lifetime.
MaxRequests == 2
\* Calls of deleteLater() on the handle.
MaxDeleteCalls == 2
\* Calls of accept() on the listening socket.
MaxAccepts == 2
\* Calls of setSocketDescpriter() on the handle.
MaxSets == 1
\* Calls of close() on the handle, the destructor's not counted.
MaxCloses == 2
\* Largest descriptor handed to setSocketDescpriter().
MaxFd == 2

\* ------------------------------------------------------------- error codes
\* errno as captured after tf_send()/tf_recv(); NOERR is errno == 0.
NOERR == "0"
EAGAIN == "EAGAIN"
EPIPE == "EPIPE"
ECONNRESET == "ECONNRESET"
EIO == "EIO"
EMFILE == "EMFILE"

VARIABLES
    \* --- socket handle, send side (reactor thread)
    sendBuf,        \* QQueue<TSendBuffer*>: the queued send buffers, head first
    sendBufSize,    \* static int sendBufSize
    wire,           \* bytes accepted by tf_send(), as <<buffer id, offset>>
    accessLog,      \* records persisted by TAccessLogger::write()
    modifyPolls,    \* TEpoll::modifyPoll() requests made by the running send()
    nextId,         \* number of buffers enqueued so far
    enqueued,       \* the buffers as they were handed to enqueueSendData()
    spc,            \* position of the reactor inside send()
    err,            \* local err of send()
    len,            \* local len of send()
    ret,            \* local ret of send()
    syscalls,       \* tf_send() attempts of the running send()
    entry,          \* handle state at the entry of the running send()
    \* --- deferred destruction
    deleting,       \* QAtomicInt/bool deleting
    myWorkerCounter,\* QAtomicInt myWorkerCounter
    destroyCalls,   \* how often destruction of the handle was triggered
    dpc,            \* position of the thread inside deleteLater()
    dseen,          \* value of myWorkerCounter read by deleteLater()
    dlCalls,        \* calls of deleteLater() started so far
    wpc,            \* per worker thread: position in acquire/release
    wres,           \* per worker thread: result of its decrement
    lateInc,        \* a worker incremented the counter after deleting was set
    destroyed,      \* the destructor has run
    \* --- request entry points
    qpc,            \* per requester thread: position inside the request
    delegated,      \* number of requests handed to TEpoll
    \* --- receive side
    recvBuf,        \* bytes appended to the receive buffer
    recvBufSize,    \* static int recvBufSize
    inbox,          \* bytes waiting in the kernel receive queue
    arrived,        \* bytes the peer has sent so far
    peer,           \* state of the peer's end of the connection
    rpc,            \* position of the reactor inside recv()
    rerr,           \* local err of recv()
    rlen,           \* local len of recv()
    rret,           \* local ret of recv()
    rentry,         \* socket state at the entry of the running recv()
    \* --- descriptor
    sd,             \* int sd: the descriptor, 0 when closed
    closedFds,      \* the arguments of the handle's tf_close() calls, in order
    sinceSet,       \* tf_close() calls since sd was last given a value
    setCalls,       \* calls of setSocketDescpriter() so far
    closeCalls,     \* calls of close() so far, the destructor's not counted
    \* --- acceptor
    handles,        \* the handles created so far, as [sd, clientAddr]
    nextFd,         \* the descriptor the kernel hands out next
    accepts,        \* calls of accept() so far
    warnings,       \* tSystemWarn() lines written by accept()
    lastAccept,     \* outcome of the last accept(): actfd, errno, result
    \* --- readiness notifier
    wev,            \* a writable event for the handle is pending
    room            \* the kernel's send buffer has room

sendVars == <<sendBuf, sendBufSize, wire, accessLog, modifyPolls, nextId,
              enqueued, spc,
              err, len, ret, syscalls, entry>>
lifeVars == <<deleting, myWorkerCounter, destroyCalls, dpc, dseen, dlCalls,
              wpc, wres, lateInc, destroyed>>
reqVars == <<qpc, delegated>>
recvVars == <<recvBuf, recvBufSize, inbox, arrived, peer, rpc, rerr, rlen,
              rret, rentry>>
fdVars == <<sd, closedFds, sinceSet, setCalls, closeCalls>>
accVars == <<handles, nextFd, accepts, warnings, lastAccept>>
pollVars == <<wev, room>>
vars == <<sendVars, lifeVars, reqVars, recvVars, fdVars, accVars, pollVars>>

Workers == 1..NumWorkers
Requesters == 1..NumRequesters

\* ---------------------------------------------------------- TSendBuffer
\* A send buffer: arrayBuffer (in-memory bytes: the data, or the header of a
\* file response), an optional bodyFile, the cursor of bytes consumed, and
\* the response byte count of its access logger.
NewBuffer(id, arraySize, hasFile, fileSize) ==
    [id |-> id, arraySize |-> arraySize, hasFile |-> hasFile,
     fileSize |-> fileSize, cursor |-> 0, responseBytes |-> 0]

\* TEpollSocket::createSendBuffer(data): in-memory payloads.
MemoryBuffers(id) ==
    {NewBuffer(id, n, FALSE, 0) : n \in 0..MaxLen}

\* TEpollSocket::createSendBuffer(header, file, ...): a one-byte header plus
\* a body file of MaxFile bytes.
FileBuffers(id) ==
    {NewBuffer(id, 1, TRUE, MaxFile)}

PayloadSize(b) == b.arraySize + (IF b.hasFile THEN b.fileSize ELSE 0)

\* TSendBuffer::getData(len): the size of the next chunk, bounded by len.
getData(b, n) ==
    IF PayloadSize(b) - b.cursor < n THEN PayloadSize(b) - b.cursor ELSE n

\* TSendBuffer::seekData(len): advance the cursor.
seekData(b, n) == [b EXCEPT !.cursor = b.cursor + n]

\* TSendBuffer::atEnd(): the whole payload has been consumed.
atEnd(b) == b.cursor >= PayloadSize(b)

\* ------------------------------------------------------------------- Init
\* One handle, as accept() and the constructor leave it: descriptor 1, the
\* shared chunk sizes set by initBuffer().
Init ==
    /\ sendBuf = <<>>
    /\ sendBufSize = ChunkSize
    /\ wire = <<>>
    /\ accessLog = <<>>
    /\ modifyPolls = 0
    /\ nextId = 0
    /\ enqueued = <<>>
    /\ spc = "idle"
    /\ err = NOERR
    /\ len = 0
    /\ ret = 0
    /\ syscalls = 0
    /\ entry = [q |-> <<>>, w |-> 0, a |-> 0, deleting |-> FALSE]
    /\ deleting = FALSE
    /\ myWorkerCounter = 0
    /\ destroyCalls = 0
    /\ dpc = "idle"
    /\ dseen = 0
    /\ dlCalls = 0
    /\ wpc = [w \in Workers |-> "idle"]
    /\ wres = [w \in Workers |-> 0]
    /\ lateInc = FALSE
    /\ destroyed = FALSE
    /\ qpc = [r \in Requesters |-> "idle"]
    /\ delegated = 0
    /\ recvBuf = <<>>
    /\ recvBufSize = ChunkSize
    /\ inbox = <<>>
    /\ arrived = 0
    /\ peer = "open"
    /\ rpc = "idle"
    /\ rerr = NOERR
    /\ rlen = 0
    /\ rret = 0
    /\ rentry = [avail |-> 0, got |-> 0]
    /\ sd = 1
    /\ closedFds = <<>>
    /\ sinceSet = 0
    /\ setCalls = 0
    /\ closeCalls = 0
    /\ handles = <<[sd |-> 1, clientAddr |-> "peerA"]>>
    /\ nextFd = 2
    /\ accepts = 0
    /\ warnings = 0
    /\ lastAccept = [actfd |-> 1, err |-> NOERR, result |-> 1, init |-> <<>>]
    /\ wev = FALSE
    /\ room = TRUE

\* ------------------------------------------------------------ send side
\* enqueueSendData(buffer): append to the tail of the queue.  Runs on the
\* reactor thread, so never inside a running send().
enqueueSendData(b) ==
    /\ spc = "idle"
    /\ ~destroyed
    /\ nextId < MaxBufs
    /\ sendBuf' = Append(sendBuf, b)
    /\ nextId' = nextId + 1
    /\ enqueued' = Append(enqueued, b)
    /\ UNCHANGED <<sendBufSize, wire, accessLog, modifyPolls, spc, err, len,
                   ret, syscalls, entry>>
    /\ UNCHANGED <<lifeVars, reqVars, recvVars, fdVars, accVars>>

Enqueue ==
    \E b \in MemoryBuffers(nextId + 1) \cup FileBuffers(nextId + 1) :
        enqueueSendData(b)

\* Mutant of SendSkips: the deleting test of line 168 is missing.
SendSkips_EmptyOnly == sendBuf = <<>>

\* send(), lines 164-170: the two early returns.
SendSkips == sendBuf = <<>> \/ deleting

\* Mutant of SendIndex: sendBuf.last() in place of sendBuf.first().
SendIndex_Last == Len(sendBuf)

\* send(), line 174: the buffer the call works on.
SendIndex == 1

\* send() entry: take the early return, or pick the head and enter the loop.
SendEnter ==
    /\ spc = "idle"
    /\ ~destroyed
    /\ entry' = [q |-> sendBuf, w |-> Len(wire), a |-> Len(accessLog),
                 deleting |-> deleting]
    /\ syscalls' = 0
    /\ modifyPolls' = 0
    /\ IF SendSkips
          THEN /\ spc' = "ret"
               /\ ret' = 0
               /\ UNCHANGED <<err, len>>
          ELSE /\ spc' = "loop"
               /\ err' = NOERR
               /\ len' = 0
               /\ ret' = 0
    /\ UNCHANGED <<sendBuf, sendBufSize, wire, accessLog, nextId, enqueued>>
    /\ UNCHANGED <<lifeVars, reqVars, recvVars, fdVars, accVars>>

\* Outcomes of tf_send(sd, data, n, MSG_NOSIGNAL) for a request of n bytes:
\* <<len, errno>>.  The kernel accepts any positive part of the chunk, or
\* reports zero, would-block, broken pipe or another error.
SendOutcomes(n) ==
    {<<k, NOERR>> : k \in 1..n}
        \cup {<<0, NOERR>>, <<-1, EAGAIN>>, <<-1, EPIPE>>, <<-1, EIO>>}

\* Mutant of LoggedAfter: the count is overwritten, not accumulated.
LoggedAfter_Overwrite(b, n) == n

\* send(), line 194: the logger's byte count after a successful write.
LoggedAfter(b, n) == b.responseBytes + n

\* send(), lines 177-195: one iteration of the write loop.
SendWrite ==
    /\ spc = "loop"
    /\ LET b == sendBuf[SendIndex]
           n == getData(b, sendBufSize)
       IN IF n = 0
             THEN /\ len' = 0
                  /\ spc' = "classify"
                  /\ UNCHANGED <<sendBuf, wire, err, syscalls>>
             ELSE \E o \in SendOutcomes(n) :
                    /\ len' = o[1]
                    /\ err' = o[2]
                    /\ syscalls' = syscalls + 1
                    /\ IF o[1] <= 0
                          THEN /\ spc' = "classify"
                               /\ UNCHANGED <<sendBuf, wire>>
                          ELSE /\ spc' = "loop"
                               /\ wire' = wire \o
                                    [i \in 1..o[1] |-> <<b.id, b.cursor + i>>]
                               /\ sendBuf' = [sendBuf EXCEPT ![SendIndex] =
                                    [seekData(b, o[1]) EXCEPT
                                        !.responseBytes = LoggedAfter(b, o[1])]]
    /\ UNCHANGED <<sendBufSize, accessLog, modifyPolls, nextId, enqueued, ret,
                   entry>>
    /\ UNCHANGED <<lifeVars, reqVars, recvVars, fdVars, accVars>>

\* send(), lines 197-214: the return value for the captured errno.
SendRet(e) == IF e \in {NOERR, EAGAIN} THEN 0 ELSE -1

\* send(), lines 205 and 211: the logger's byte count after classification.
SendLogged(b, e) == IF SendRet(e) < 0 THEN -1 ELSE b.responseBytes

\* Mutant of SendFinalizes: a failed head stays queued.
SendFinalizes_EndOnly(b, r) == atEnd(b)

\* send(), line 216: whether the head is flushed and dequeued.
SendFinalizes(b, r) == atEnd(b) \/ r < 0

\* Line 218: sendBuf.dequeue() takes the head off the queue.
SendDequeue_All(q) == <<>>

SendDequeue(q) == Tail(q)

\* Mutant of SendRearms: the would-block test is missing.
SendRearms_Always(e, q) == q # <<>>

\* Mutant of SendRearms: send() never asks for re-registration.
SendRearms_Never(e, q) == FALSE

\* Mutant of SendRearms: the test of the queue is missing.
SendRearms_NoQueueTest(e, q) == e # EAGAIN

\* send(), line 221: whether the handle is re-registered with the poller.
SendRearms(e, q) == e # EAGAIN /\ q # <<>>

\* send(), lines 197-225: classification, finalization, re-arming, return.
SendFinish ==
    /\ spc = "classify"
    /\ LET b == [sendBuf[SendIndex] EXCEPT
                    !.responseBytes = SendLogged(sendBuf[SendIndex], err)]
           r == SendRet(err)
           q == IF SendFinalizes(b, r)
                   THEN SendDequeue(sendBuf)
                   ELSE [sendBuf EXCEPT ![SendIndex] = b]
       IN /\ ret' = r
          /\ sendBuf' = q
          /\ accessLog' = IF SendFinalizes(b, r)
                             THEN Append(accessLog,
                                    [id |-> b.id, responseBytes |-> b.responseBytes])
                             ELSE accessLog
          /\ modifyPolls' = IF SendRearms(err, q) THEN modifyPolls + 1
                                                  ELSE modifyPolls
    /\ spc' = "ret"
    /\ UNCHANGED <<sendBufSize, wire, nextId, enqueued, err, len, syscalls,
                   entry>>
    /\ UNCHANGED <<lifeVars, reqVars, recvVars, fdVars, accVars>>

\* The caller has taken the return value of send(); the call's locals are
\* gone.
SendReturn ==
    /\ spc = "ret"
    /\ spc' = "idle"
    /\ err' = NOERR
    /\ len' = 0
    /\ ret' = 0
    /\ syscalls' = 0
    /\ modifyPolls' = 0
    /\ entry' = [q |-> <<>>, w |-> 0, a |-> 0, deleting |-> FALSE]
    /\ UNCHANGED <<sendBuf, sendBufSize, wire, accessLog, nextId, enqueued>>
    /\ UNCHANGED <<lifeVars, reqVars, recvVars, fdVars, accVars>>

\* ------------------------------------------------- deferred destruction
\* deleteLater(), line 300: deleting = true.
DeleteLaterStore ==
    /\ dpc = "idle"
    /\ dlCalls < MaxDeleteCalls
    /\ dlCalls' = dlCalls + 1
    /\ deleting' = TRUE
    /\ dpc' = "read"
    /\ UNCHANGED <<myWorkerCounter, destroyCalls, dseen, wpc, wres, lateInc,
                   destroyed>>
    /\ UNCHANGED <<sendVars, reqVars, recvVars, fdVars, accVars, pollVars>>

\* deleteLater(), line 301: the read of myWorkerCounter.
DeleteLaterRead ==
    /\ dpc = "read"
    /\ dseen' = myWorkerCounter
    /\ dpc' = "test"
    /\ UNCHANGED <<deleting, myWorkerCounter, destroyCalls, dlCalls, wpc, wres,
                   lateInc, destroyed>>
    /\ UNCHANGED <<sendVars, reqVars, recvVars, fdVars, accVars, pollVars>>

\* deleteLater(), line 301: the test that guards QObject::deleteLater().
DeleteLaterTriggers_Never(seen) == FALSE

DeleteLaterTriggers(seen) == seen = 0

\* deleteLater(), lines 301-303: QObject::deleteLater() when the test passes.
DeleteLaterTest ==
    /\ dpc = "test"
    /\ destroyCalls' = IF DeleteLaterTriggers(dseen) THEN destroyCalls + 1
                                                     ELSE destroyCalls
    /\ dpc' = "idle"
    /\ UNCHANGED <<deleting, myWorkerCounter, dseen, dlCalls, wpc, wres,
                   lateInc, destroyed>>
    /\ UNCHANGED <<sendVars, reqVars, recvVars, fdVars, accVars, pollVars>>

\* A task takes a working reference: it first looks at deleting and starts no
\* new work on a handle that is being deleted.
AcquireCheck(w) ==
    /\ wpc[w] = "idle"
    /\ ~deleting
    /\ wpc' = [wpc EXCEPT ![w] = "inc"]
    /\ UNCHANGED <<deleting, myWorkerCounter, destroyCalls, dpc, dseen,
                   dlCalls, wres, lateInc, destroyed>>
    /\ UNCHANGED <<sendVars, reqVars, recvVars, fdVars, accVars, pollVars>>

\* ... then increments myWorkerCounter before starting its work.
AcquireIncrement(w) ==
    /\ wpc[w] = "inc"
    /\ myWorkerCounter' = myWorkerCounter + 1
    /\ lateInc' = (lateInc \/ deleting)
    /\ wpc' = [wpc EXCEPT ![w] = "work"]
    /\ UNCHANGED <<deleting, destroyCalls, dpc, dseen, dlCalls, wres, destroyed>>
    /\ UNCHANGED <<sendVars, reqVars, recvVars, fdVars, accVars, pollVars>>

\* release_worker_reference(): the atomic decrement, which yields its result.
ReleaseDecrement(w) ==
    /\ wpc[w] = "work"
    /\ myWorkerCounter' = myWorkerCounter - 1
    /\ wres' = [wres EXCEPT ![w] = myWorkerCounter - 1]
    /\ wpc' = [wpc EXCEPT ![w] = "test"]
    /\ UNCHANGED <<deleting, destroyCalls, dpc, dseen, dlCalls, lateInc,
                   destroyed>>
    /\ UNCHANGED <<sendVars, reqVars, recvVars, fdVars, accVars, pollVars>>

\* release_worker_reference(): destruction proceeds when the result is zero
\* and deleting is already true.
ReleaseTest(w) ==
    /\ wpc[w] = "test"
    /\ destroyCalls' = IF wres[w] = 0 /\ deleting THEN destroyCalls + 1
                                                  ELSE destroyCalls
    /\ wpc' = [wpc EXCEPT ![w] = "idle"]
    /\ UNCHANGED <<deleting, myWorkerCounter, dpc, dseen, dlCalls, wres,
                   lateInc, destroyed>>
    /\ UNCHANGED <<sendVars, reqVars, recvVars, fdVars, accVars, pollVars>>

\* ------------------------------------------------ request entry points
\* sendData() (both overloads), disconnect(), switchToWebSocket().
RequestKinds == {"sendData", "disconnect", "switchToWebSocket"}

\* Lines 252, 259, 266, 273: the test that guards the delegation.
RequestPasses == ~deleting

\* The request loads deleting; it returns at once when the test fails.
RequestCheck(r, kind) ==
    /\ qpc[r] = "idle"
    /\ delegated + Cardinality({x \in Requesters : qpc[x] # "idle"})
          < MaxRequests
    /\ qpc' = [qpc EXCEPT ![r] = IF RequestPasses THEN kind ELSE "idle"]
    /\ UNCHANGED delegated
    /\ UNCHANGED <<sendVars, lifeVars, recvVars, fdVars, accVars, pollVars>>

\* Lines 253, 260, 267, 274: the call into TEpoll::instance().
RequestDelegate(r) ==
    /\ qpc[r] # "idle"
    /\ delegated' = delegated + 1
    /\ qpc' = [qpc EXCEPT ![r] = "idle"]
    /\ UNCHANGED <<sendVars, lifeVars, recvVars, fdVars, accVars, pollVars>>

\* ---------------------------------------------------------- receive side
\* The peer sends one more byte; bytes are numbered in the order sent.
PeerSend ==
    /\ peer = "open"
    /\ arrived < MaxIn
    /\ arrived' = arrived + 1
    /\ inbox' = Append(inbox, arrived + 1)
    /\ UNCHANGED <<recvBuf, recvBufSize, peer, rpc, rerr, rlen, rret, rentry>>
    /\ UNCHANGED <<sendVars, lifeVars, reqVars, fdVars, accVars, pollVars>>

\* The peer closes its end in an orderly way, or resets the connection.
PeerEnd ==
    /\ peer = "open"
    /\ peer' \in {"closed", "reset"}
    /\ UNCHANGED <<recvBuf, recvBufSize, inbox, arrived, rpc, rerr, rlen, rret,
                   rentry>>
    /\ UNCHANGED <<sendVars, lifeVars, reqVars, fdVars, accVars, pollVars>>

\* recv() entry, lines 121-125.
RecvEnter ==
    /\ rpc = "idle"
    /\ rpc' = "loop"
    /\ rentry' = [avail |-> Len(inbox), got |-> Len(recvBuf)]
    /\ UNCHANGED <<recvBuf, recvBufSize, inbox, arrived, peer, rerr, rlen,
                   rret>>
    /\ UNCHANGED <<sendVars, lifeVars, reqVars, fdVars, accVars, pollVars>>

\* Outcomes of tf_recv(sd, buf, n, 0), as <<len, errno>>: a positive part of
\* what is waiting, bounded by n; with nothing waiting, would-block on an
\* open connection and end-of-stream on a closed one; connection reset after
\* the peer reset it; or another error.
RecvOutcomes(n) ==
    {<<k, NOERR>> : k \in 1..(IF Len(inbox) < n THEN Len(inbox) ELSE n)}
        \cup (IF inbox = <<>> /\ peer = "open" THEN {<<-1, EAGAIN>>} ELSE {})
        \cup (IF inbox = <<>> /\ peer = "closed" THEN {<<0, NOERR>>} ELSE {})
        \cup (IF peer = "reset" THEN {<<-1, ECONNRESET>>} ELSE {})
        \cup {<<-1, EIO>>}

\* recv(), line 131: the loop ends on a non-positive length.
RecvBreaks(n) == n <= 0

\* recv(), line 136: seekRecvBuffer(len) makes the bytes read part of the
\* receive buffer.
seekRecvBuffer(buf, data) == buf \o data

\* recv(), lines 125-137: one iteration of the read loop.
RecvRead ==
    /\ rpc = "loop"
    /\ \E o \in RecvOutcomes(recvBufSize) :
          /\ rlen' = o[1]
          /\ rerr' = o[2]
          /\ IF RecvBreaks(o[1])
                THEN /\ rpc' = "classify"
                     /\ UNCHANGED <<recvBuf, inbox>>
                ELSE /\ rpc' = "loop"
                     /\ recvBuf' = seekRecvBuffer(recvBuf, SubSeq(inbox, 1, o[1]))
                     /\ inbox' = SubSeq(inbox, o[1] + 1, Len(inbox))
    /\ UNCHANGED <<recvBufSize, arrived, peer, rret, rentry>>
    /\ UNCHANGED <<sendVars, lifeVars, reqVars, fdVars, accVars, pollVars>>

\* Mutant of recvRet: connection reset is taken for success.
recvRet_ResetOk(e) == IF e \in {EAGAIN, ECONNRESET} THEN 0 ELSE -1

\* Mutant of recvRet: errno 0 (a zero-length read) is taken for success.
recvRet_ZeroOk(e) == IF e \in {EAGAIN, NOERR} THEN 0 ELSE -1

\* recv(), lines 139-154: the return value for the captured errno.
recvRet(e) == IF e = EAGAIN THEN 0 ELSE -1

\* recv(), lines 139-155: classification and return.
RecvFinish ==
    /\ rpc = "classify"
    /\ rret' = recvRet(rerr)
    /\ rpc' = "ret"
    /\ UNCHANGED <<recvBuf, recvBufSize, inbox, arrived, peer, rerr, rlen,
                   rentry>>
    /\ UNCHANGED <<sendVars, lifeVars, reqVars, fdVars, accVars, pollVars>>

\* The caller has taken the return value of recv(); the call's locals are
\* gone.
RecvReturn ==
    /\ rpc = "ret"
    /\ rpc' = "idle"
    /\ rerr' = NOERR
    /\ rlen' = 0
    /\ rret' = 0
    /\ rentry' = [avail |-> 0, got |-> 0]
    /\ UNCHANGED <<recvBuf, recvBufSize, inbox, arrived, peer>>
    /\ UNCHANGED <<sendVars, lifeVars, reqVars, fdVars, accVars, pollVars>>

NextSend ==
    \/ Enqueue /\ UNCHANGED pollVars
    \/ SendEnter /\ UNCHANGED pollVars
    \/ SendWrite /\ UNCHANGED pollVars
    \/ SendFinish /\ UNCHANGED pollVars
    \/ SendReturn /\ UNCHANGED pollVars
    \/ DeleteLaterStore
    \/ DeleteLaterRead
    \/ DeleteLaterTest

SpecSend == Init /\ [][NextSend]_vars

NextRecv ==
    \/ PeerSend
    \/ PeerEnd
    \/ RecvEnter
    \/ RecvRead
    \/ RecvFinish
    \/ RecvReturn

SpecRecv == Init /\ [][NextRecv]_vars

NextLife ==
    \/ DeleteLaterStore
    \/ DeleteLaterRead
    \/ DeleteLaterTest
    \/ \E w \in Workers : AcquireCheck(w)
    \/ \E w \in Workers : AcquireIncrement(w)
    \/ \E w \in Workers : ReleaseDecrement(w)
    \/ \E w \in Workers : ReleaseTest(w)

SpecLife == Init /\ [][NextLife]_vars

NextRequest ==
    \/ DeleteLaterStore
    \/ DeleteLaterRead
    \/ DeleteLaterTest
    \/ \E r \in Requesters : \E kind \in RequestKinds : RequestCheck(r, kind)
    \/ \E r \in Requesters : RequestDelegate(r)

SpecRequest == Init /\ [][NextRequest]_vars

\* ----------------------------------------------------------- accessors
RECURSIVE SumSizes(_)
SumSizes(q) ==
    IF q = <<>> THEN 0
    ELSE Head(q).arraySize
            + (IF Head(q).hasFile THEN Head(q).fileSize ELSE 0)
            + SumSizes(Tail(q))

\* bufferedBytes(): arrayBuffer.size(), plus bodyFile->size() when there is a
\* body file, summed over the queue.
bufferedBytes == SumSizes(sendBuf)

\* bufferedListCount()
bufferedListCount == Len(sendBuf)

\* ------------------------------------------------------- claim helpers
\* The bytes of buffer id on the wire, in the order they were written.
WireOf(id) == SelectSeq(wire, LAMBDA w : w[1] = id)

\* Bytes 1..n of buffer id.
PayloadBytes(id, n) == [i \in 1..n |-> <<id, i>>]

RECURSIVE SumUnsent(_)
SumUnsent(q) ==
    IF q = <<>> THEN 0
    ELSE (PayloadSize(Head(q)) - Head(q).cursor) + SumUnsent(Tail(q))

\* The running send() was not an early return.
SendWorked == entry.q # <<>> /\ ~entry.deleting

\* Bytes written by the running send().
WrittenInCall == Len(wire) - entry.w

\* ------------------------------------------------------------------ C1
\* C1: the bytes on the wire are the buffers' payloads in enqueue order
\* (buffer ids ascend along the wire, offsets ascend within a buffer and
\* start at the buffer's first byte without gaps), and no byte of a buffer
\* is on the wire while an earlier-enqueued buffer is still queued: only the
\* head of the queue has ever been transmitted from.
C1_FifoOrder ==
    /\ \A i \in 1..Len(wire) : \A j \in 1..Len(wire) :
          i < j => \/ wire[i][1] < wire[j][1]
                   \/ wire[i][1] = wire[j][1] /\ wire[i][2] < wire[j][2]
    /\ \A id \in 1..nextId : WireOf(id) = PayloadBytes(id, Len(WireOf(id)))
    /\ \A k \in 2..Len(sendBuf) :
          /\ sendBuf[k].cursor = 0
          /\ WireOf(sendBuf[k].id) = <<>>
          /\ sendBuf[k - 1].id < sendBuf[k].id

\* Bytes of two buffers are on the wire, the second one still in the queue.
C1_Witness ==
    /\ WireOf(1) # <<>>
    /\ WireOf(2) # <<>>
    /\ sendBuf # <<>>
    /\ sendBuf[1].id = 2

\* ------------------------------------------------------------------ C4
\* C4: between send() calls that have transmitted part of the body file of a
\* file-backed head buffer, bufferedBytes() equals the sum of the queued
\* buffers' unsent bytes (payload size minus cursor).
C4_BufferedBytesIsUnsent ==
    (/\ spc = "idle"
     /\ sendBuf # <<>>
     /\ sendBuf[1].hasFile
     /\ sendBuf[1].cursor > sendBuf[1].arraySize)
        => bufferedBytes = SumUnsent(sendBuf)

\* ------------------------------------------------------------------ C5
\* C5: an in-memory buffer of N bytes that left the queue without a terminal
\* error has exactly its N bytes on the wire, in payload order, each once,
\* and its logger's response byte count has grown from 0 to N.
C5_RoundTrip ==
    \A k \in 1..Len(accessLog) :
        LET e == accessLog[k]
            b == enqueued[e.id]
        IN (~b.hasFile /\ e.responseBytes # -1) =>
              /\ WireOf(e.id) = PayloadBytes(e.id, b.arraySize)
              /\ e.responseBytes = b.arraySize

\* An in-memory buffer of MaxLen bytes completed over two send() calls: the
\* call that finished it wrote less than the whole payload.
C5_Witness ==
    /\ spc = "ret"
    /\ SendWorked
    /\ Len(accessLog) = entry.a + 1
    /\ LET e == accessLog[Len(accessLog)]
       IN /\ ~enqueued[e.id].hasFile
          /\ e.responseBytes = MaxLen
          /\ WrittenInCall < MaxLen

\* ------------------------------------------------------------------ C7
\* C7: when a send() that wrote K bytes of the head ends on broken pipe, it
\* returns -1, the head's record is flushed with response bytes -1, the head
\* is gone from the queue and the rest of the queue is as it was; a flushed
\* buffer is never in the queue again, so no later send() retries it.
C7_BrokenPipe ==
    /\ (spc = "ret" /\ SendWorked /\ err = EPIPE) =>
          /\ ret = -1
          /\ accessLog = Append(SubSeq(accessLog, 1, entry.a),
                                [id |-> entry.q[1].id, responseBytes |-> -1])
          /\ sendBuf = Tail(entry.q)
          /\ WireOf(entry.q[1].id) =
                PayloadBytes(entry.q[1].id, entry.q[1].cursor + WrittenInCall)
    /\ \A k \in 1..Len(accessLog) : \A i \in 1..Len(sendBuf) :
          sendBuf[i].id # accessLog[k].id

\* A send() with two buffers queued wrote one byte of the head, then hit
\* broken pipe.
C7_Witness ==
    /\ spc = "ret"
    /\ SendWorked
    /\ err = EPIPE
    /\ Len(entry.q) = 2
    /\ WrittenInCall = 1
    /\ PayloadSize(entry.q[1]) > entry.q[1].cursor + 1

\* ------------------------------------------------------------------ C8
\* C8: with two buffers queued, a send() that ends on would-block returns 0,
\* leaves both buffers queued in order, the head's cursor (and logger count)
\* advanced by exactly the bytes written in the call, the tail untouched, no
\* record flushed and no modifyPoll() requested.
C8_WouldBlockFrame ==
    (spc = "ret" /\ SendWorked /\ err = EAGAIN /\ Len(entry.q) = 2) =>
        /\ ret = 0
        /\ Len(sendBuf) = 2
        /\ sendBuf[1] = [entry.q[1] EXCEPT
                            !.cursor = @ + WrittenInCall,
                            !.responseBytes = @ + WrittenInCall]
        /\ sendBuf[2] = entry.q[2]
        /\ Len(accessLog) = entry.a
        /\ modifyPolls = 0

\* Two buffers queued, one byte written, then would-block.
C8_Witness ==
    /\ spc = "ret"
    /\ SendWorked
    /\ err = EAGAIN
    /\ Len(entry.q) = 2
    /\ WrittenInCall = 1

\* ------------------------------------------------------------------ C9
\* C9: a send() entered with an empty queue, or with deleting set, returns 0
\* having made no tf_send() attempt, with the queue (cursors and loggers
\* included), the wire and the access log as they were and no modifyPoll().
C9_NoOpSend ==
    (spc = "ret" /\ (entry.q = <<>> \/ entry.deleting)) =>
        /\ ret = 0
        /\ syscalls = 0
        /\ sendBuf = entry.q
        /\ Len(wire) = entry.w
        /\ Len(accessLog) = entry.a
        /\ modifyPolls = 0

\* send() returned from a call entered with deleting set and a buffer queued.
C9_Witness ==
    /\ spc = "ret"
    /\ entry.deleting
    /\ entry.q # <<>>
    /\ PayloadSize(entry.q[1]) > entry.q[1].cursor

\* ------------------------------------------------------------------ C2
\* C2: with one deleteLater() call and workers that took their references
\* before deleting was set, destruction is triggered at most once, however
\* the store of deleting and the read of myWorkerCounter interleave with the
\* final decrement.
C2_DestroyedOnce ==
    (dlCalls <= 1 /\ ~lateInc) => destroyCalls <= 1

\* ------------------------------------------------------------------ C3
\* C3: every step that triggers destruction is taken in a state where
\* deleting is true and myWorkerCounter is zero.
C3_NoDestroyWhileReferenced ==
    [][destroyCalls' > destroyCalls => (deleting /\ myWorkerCounter = 0)]_vars

\* ----------------------------------------------------------------- C10
\* C10: once deleting is true, no request is handed to TEpoll.
C10_NoDelegationOnceDeleting ==
    [][deleting => delegated' = delegated]_vars

\* ------------------------------------------------------------------ C6
\* C6: recv() returns 0 only when its last read reported would-block, and
\* then every byte that was waiting when the call began has been read in the
\* call; the receive buffer followed by what still waits in the kernel is the
\* peer's byte stream, so every read was appended in arrival order.
C6_RecvDrains ==
    /\ (rpc = "ret" /\ rret = 0) =>
          /\ rerr = EAGAIN
          /\ rlen <= 0
          /\ Len(recvBuf) - rentry.got >= rentry.avail
    /\ recvBuf \o inbox = [i \in 1..arrived |-> i]

\* recv() returned 0 after it needed two reads for the bytes that waited.
C6_Witness ==
    /\ rpc = "ret"
    /\ rret = 0
    /\ rentry.avail > recvBufSize
    /\ Len(recvBuf) - rentry.got >= rentry.avail

\* ----------------------------------------------------------------- C11
\* C11: recv() returns by the errno of the read that ended its loop:
\* would-block gives 0; a zero-length read (errno 0), connection reset and
\* every other errno give -1.  The read that ended the loop had a
\* non-positive length, and the bytes read before it are in the receive
\* buffer, which still is a prefix of the peer's stream.
C11_RecvClassifies ==
    (rpc = "ret") =>
        /\ rlen <= 0
        /\ rerr = EAGAIN => rret = 0
        /\ rerr = NOERR => (rlen = 0 /\ rret = -1)
        /\ rerr = ECONNRESET => rret = -1
        /\ rerr \notin {EAGAIN, NOERR, ECONNRESET} => rret = -1
        /\ Len(recvBuf) >= rentry.got
        /\ recvBuf = [i \in 1..Len(recvBuf) |-> i]

\* recv() returned after reading a byte and then meeting connection reset.
C11_Witness ==
    /\ rpc = "ret"
    /\ rerr = ECONNRESET
    /\ rret = -1
    /\ Len(recvBuf) > rentry.got

\* ------------------------------------------------------ accept / create
\* The process before any connection was accepted: no handle, the static
\* sendBufSize and recvBufSize still 0 (lines 22-23).  Descriptor 0 is the
\* lowest free one in a process that runs with its standard input closed,
\* otherwise the kernel hands out descriptors from 3 on.
InitProcess ==
    /\ sendBuf = <<>>
    /\ sendBufSize = 0
    /\ wire = <<>>
    /\ accessLog = <<>>
    /\ modifyPolls = 0
    /\ nextId = 0
    /\ enqueued = <<>>
    /\ spc = "idle"
    /\ err = NOERR
    /\ len = 0
    /\ ret = 0
    /\ syscalls = 0
    /\ entry = [q |-> <<>>, w |-> 0, a |-> 0, deleting |-> FALSE]
    /\ deleting = FALSE
    /\ myWorkerCounter = 0
    /\ destroyCalls = 0
    /\ dpc = "idle"
    /\ dseen = 0
    /\ dlCalls = 0
    /\ wpc = [w \in Workers |-> "idle"]
    /\ wres = [w \in Workers |-> 0]
    /\ lateInc = FALSE
    /\ destroyed = FALSE
    /\ qpc = [r \in Requesters |-> "idle"]
    /\ delegated = 0
    /\ recvBuf = <<>>
    /\ recvBufSize = 0
    /\ inbox = <<>>
    /\ arrived = 0
    /\ peer = "open"
    /\ rpc = "idle"
    /\ rerr = NOERR
    /\ rlen = 0
    /\ rret = 0
    /\ rentry = [avail |-> 0, got |-> 0]
    /\ sd = 0
    /\ closedFds = <<>>
    /\ sinceSet = 0
    /\ setCalls = 0
    /\ closeCalls = 0
    /\ handles = <<>>
    /\ nextFd \in {0, 3}
    /\ accepts = 0
    /\ warnings = 0
    /\ lastAccept = [actfd |-> -1, err |-> NOERR, result |-> 0, init |-> <<>>]
    /\ wev = FALSE
    /\ room = TRUE

\* Peer addresses of incoming connections.
Addrs == {"peerA", "peerB"}

\* Line 32: tf_accept4() fails with some errno or hands out a descriptor.
AcceptOutcomes ==
    {[actfd |-> -1, err |-> e] : e \in {EAGAIN, EMFILE}}
        \cup {[actfd |-> nextFd, err |-> NOERR]}

\* Sizes the kernel reports for SO_SNDBUF and SO_RCVBUF: always positive.
OsSizes == 1..ChunkSize

\* Lines 82 and 87: getsockopt() fails or stores the kernel's size.
SockoptOutcomes ==
    {[res |-> 0, val |-> v] : v \in OsSizes} \cup {[res |-> -1, val |-> 0]}

\* Line 74.
BUF_SIZE == 128 * 1024

\* Line 34: the test accept() makes on the result of tf_accept4().
AcceptFails(actfd) == actfd < 0

\* Line 49: the test create() makes on the descriptor.
CreateMakes(socketDescriptor) == socketDescriptor > 0

\* Line 76: initBuffer() only acts while sendBufSize is 0.
InitBufferRuns_Always(size) == TRUE

InitBufferRuns(size) == size = 0

\* Lines 83-84 and 88-89: the fallback when getsockopt() fails.
BufSizeOf(o) == IF o.res < 0 THEN BUF_SIZE ELSE o.val

\* accept(), lines 27-42, with create(), lines 45-57, the constructor, lines
\* 95-101, and initBuffer(), lines 72-92.
accept(o, addr, snd, rcv) ==
    /\ accepts < MaxAccepts
    /\ accepts' = accepts + 1
    /\ nextFd' = IF o.actfd >= 0 THEN nextFd + 1 ELSE nextFd
    /\ warnings' = IF AcceptFails(o.actfd) /\ o.err # EAGAIN
                   THEN warnings + 1 ELSE warnings
    /\ LET made == ~AcceptFails(o.actfd) /\ CreateMakes(o.actfd)
           inits == made /\ InitBufferRuns(sendBufSize)
       IN  /\ handles' = IF made
                         THEN Append(handles,
                                     [sd |-> o.actfd, clientAddr |-> addr])
                         ELSE handles
           /\ lastAccept' = [actfd |-> o.actfd, err |-> o.err,
                             result |-> IF made THEN Len(handles) + 1 ELSE 0,
                             init |-> IF inits THEN <<snd, rcv>> ELSE <<>>]
           /\ sendBufSize' = IF inits THEN BufSizeOf(snd) ELSE sendBufSize
           /\ recvBufSize' = IF inits THEN BufSizeOf(rcv) ELSE recvBufSize
    /\ UNCHANGED <<sendBuf, wire, accessLog, modifyPolls, nextId, enqueued,
                   spc, err, len, ret, syscalls, entry>>
    /\ UNCHANGED <<recvBuf, inbox, arrived, peer, rpc, rerr, rlen, rret,
                   rentry>>
    /\ UNCHANGED <<lifeVars, reqVars, fdVars, pollVars>>

Accept ==
    \E o \in AcceptOutcomes : \E addr \in Addrs :
        \E snd \in SockoptOutcomes : \E rcv \in SockoptOutcomes :
            accept(o, addr, snd, rcv)

NextAccept == Accept

SpecAccept == InitProcess /\ [][NextAccept]_vars

\* C12: accept() creates a handle if and only if the operating system's
\* accept succeeded, with the accepted descriptor and no log line on
\* success, and no handle on failure.
C12_HandleIffAccepted ==
    (accepts > 0) =>
        /\ (lastAccept.result # 0) <=> (lastAccept.actfd >= 0)
        /\ lastAccept.result # 0 =>
               handles[lastAccept.result].sd = lastAccept.actfd

\* C19: the first handle creation sets both chunk sizes, each to the size the
\* kernel reports or to 131072 when the query fails; no later handle creation
\* changes either; both are non-zero as soon as a handle exists, so before
\* any recv() or send() runs.
C19_SizedOnce ==
    [][LET Sized(o) == IF o.res < 0 THEN 131072 ELSE o.val
       IN  /\ (handles = <<>> /\ handles' # <<>>) =>
                  /\ lastAccept'.init # <<>>
                  /\ sendBufSize' = Sized(lastAccept'.init[1])
                  /\ recvBufSize' = Sized(lastAccept'.init[2])
           /\ handles # <<>> =>
                  /\ sendBufSize' = sendBufSize
                  /\ recvBufSize' = recvBufSize
           /\ handles' # <<>> => (sendBufSize' > 0 /\ recvBufSize' > 0)
           /\ handles' = <<>> => (sendBufSize' = 0 /\ recvBufSize' = 0)]_vars

C19_Witness ==
    /\ Len(handles) = 2
    /\ lastAccept.result = 2
    /\ lastAccept.init = <<>>
    /\ sendBufSize = 131072
    /\ recvBufSize \in OsSizes

\* ------------------------------------------------------------ descriptor
\* Descriptors handed to setSocketDescpriter(); 0 takes the descriptor away
\* from the handle.
Fds == 0..MaxFd

\* Line 243: close() only acts on a positive descriptor.
CloseActs_Always(d) == TRUE

CloseActs(d) == d > 0

\* close(), lines 241-247: the effect on the descriptor.
close ==
    /\ closedFds' = IF CloseActs(sd) THEN Append(closedFds, sd) ELSE closedFds
    /\ sinceSet' = IF CloseActs(sd) THEN sinceSet + 1 ELSE sinceSet
    /\ sd' = IF CloseActs(sd) THEN 0 ELSE sd

\* A call of close() on the live handle.
Close ==
    /\ ~destroyed
    /\ closeCalls < MaxCloses
    /\ closeCalls' = closeCalls + 1
    /\ close
    /\ UNCHANGED setCalls
    /\ UNCHANGED <<sendVars, lifeVars, reqVars, recvVars, accVars, pollVars>>

\* setSocketDescpriter(), lines 235-238: overwrites sd, closing nothing.
setSocketDescpriter(socketDescriptor) ==
    /\ ~destroyed
    /\ setCalls < MaxSets
    /\ setCalls' = setCalls + 1
    /\ sd' = socketDescriptor
    /\ sinceSet' = 0
    /\ UNCHANGED <<closedFds, closeCalls>>
    /\ UNCHANGED <<sendVars, lifeVars, reqVars, recvVars, accVars, pollVars>>

SetSocketDescriptor == \E fd \in Fds : setSocketDescpriter(fd)

\* ~TEpollSocket(), lines 104-114, run by the event loop once
\* QObject::deleteLater() was called and no operation of the handle is in
\* progress: close(), then every queued buffer is deleted and the queue
\* cleared.
Destroy ==
    /\ destroyCalls > 0
    /\ ~destroyed
    /\ spc = "idle" /\ rpc = "idle" /\ dpc = "idle"
    /\ destroyed' = TRUE
    /\ close
    /\ sendBuf' = <<>>
    /\ UNCHANGED <<sendBufSize, wire, accessLog, modifyPolls, nextId,
                   enqueued, spc, err, len, ret, syscalls, entry>>
    /\ UNCHANGED <<deleting, myWorkerCounter, destroyCalls, dpc, dseen,
                   dlCalls, wpc, wres, lateInc>>
    /\ UNCHANGED <<setCalls, closeCalls>>
    /\ UNCHANGED <<reqVars, recvVars, accVars, pollVars>>

\* One worker takes and releases references while the descriptor is closed
\* and set.
FdWorker == CHOOSE w \in Workers : TRUE

NextFd ==
    \/ Close
    \/ SetSocketDescriptor
    \/ Destroy
    \/ DeleteLaterStore
    \/ DeleteLaterRead
    \/ DeleteLaterTest
    \/ AcquireCheck(FdWorker)
    \/ AcquireIncrement(FdWorker)
    \/ ReleaseDecrement(FdWorker)
    \/ ReleaseTest(FdWorker)

SpecFd == Init /\ [][NextFd]_vars

\* C18 as stated: over any sequence of close(), destruction and other handle
\* operations the handle performs at most one OS close, and exactly one once
\* it is destroyed.
C18_ReleasedOnce ==
    /\ Len(closedFds) <= 1
    /\ destroyed => Len(closedFds) = 1

\* C18, amended: every OS close the handle performs is of its current,
\* positive descriptor and leaves sd = 0; a close() or destructor that finds
\* sd = 0 performs none; so between two setSocketDescpriter() calls there is
\* at most one OS close, and a descriptor that setSocketDescpriter() replaced
\* is never closed by the handle.  close() neither destroys the handle nor
\* touches myWorkerCounter.
C18_ClosedOncePerDescriptor ==
    /\ [](sinceSet <= 1)
    /\ [][/\ closedFds' # closedFds =>
                 /\ sd > 0
                 /\ closedFds' = Append(closedFds, sd)
                 /\ sd' = 0
          /\ (closeCalls' # closeCalls \/ destroyed' # destroyed) =>
                 /\ sd' = 0
                 /\ sd > 0 => Len(closedFds') = Len(closedFds) + 1
                 /\ sd = 0 => closedFds' = closedFds
          /\ (setCalls' # setCalls) => closedFds' = closedFds
          /\ closeCalls' # closeCalls =>
                 /\ destroyed' = destroyed
                 /\ destroyCalls' = destroyCalls
                 /\ myWorkerCounter' = myWorkerCounter]_vars

C18_Witness ==
    /\ closeCalls = 2
    /\ closedFds = <<1>>
    /\ sd = 0
    /\ myWorkerCounter > 0
    /\ ~destroyed

\* ------------------------------------------- deferred destruction, fair
NextLifeFair ==
    \/ NextLife
    \/ Destroy

\* Every thread keeps running: a deleteLater() in progress completes, a
\* worker that passed the check increments, a worker that holds a reference
\* releases it and finishes the release, and the event loop delivers the
\* deferred delete.
SpecLifeFair ==
    /\ Init
    /\ [][NextLifeFair]_vars
    /\ WF_vars(DeleteLaterRead)
    /\ WF_vars(DeleteLaterTest)
    /\ \A w \in Workers : WF_vars(AcquireIncrement(w))
    /\ \A w \in Workers : WF_vars(ReleaseDecrement(w))
    /\ \A w \in Workers : WF_vars(ReleaseTest(w))
    /\ WF_vars(Destroy)

\* C13: once deleteLater() has been called, and every worker that holds a
\* reference eventually releases it, the handle is eventually destroyed; it
\* does not stay marked for deletion forever.
C13_EventuallyDestroyed == deleting ~> destroyed

C13_Witness ==
    /\ destroyed
    /\ dlCalls = 1
    /\ dseen > 0
    /\ myWorkerCounter = 0

\* C16: deleting only changes from false to true, and a deleteLater() called
\* when deleting is already true (any call after the first) has no effect:
\* its last step does not call for destruction again.
C16_MarkIdempotent ==
    [][/\ deleting => deleting'
       /\ (dlCalls > 1 /\ dpc = "test" /\ dpc' = "idle") =>
              destroyCalls' = destroyCalls]_vars

\* C14: a send() call asks for re-registration exactly when, after
\* finalization, the error code of the last write is not would-block and the
\* queue is not empty; a call that ended on would-block, that left the queue
\* empty, or that returned early asks for none.
C14_RearmExactly ==
    (spc = "ret") =>
        modifyPolls = IF SendWorked /\ err # EAGAIN /\ sendBuf # <<>>
                      THEN 1 ELSE 0

C14_Witness ==
    /\ spc = "ret"
    /\ modifyPolls = 1
    /\ ret = 0
    /\ Len(entry.q) = 2
    /\ Len(sendBuf) = 1

\* ------------------------------------------------- send with destruction
NextSendDestroy ==
    \/ NextSend
    \/ Destroy

SpecSendDestroy == Init /\ [][NextSendDestroy]_vars

\* C17: no buffer's access-log record is flushed twice; send() removes a
\* buffer only as the head of the queue, in the step that flushes its record,
\* and only when the buffer is fully consumed or the call ends in a terminal
\* error; one call removes at most one buffer; the destructor empties the
\* queue without flushing anything.
C17_FlushOnceHeadOnly ==
    /\ [](\A i, j \in 1..Len(accessLog) :
              accessLog[i].id = accessLog[j].id => i = j)
    /\ [](spc = "ret" => Len(entry.q) - Len(sendBuf) \in {0, 1})
    /\ [][/\ (Len(sendBuf') < Len(sendBuf) /\ destroyed' = destroyed) =>
                 /\ spc = "classify"
                 /\ sendBuf' = Tail(sendBuf)
                 /\ Len(accessLog') = Len(accessLog) + 1
                 /\ accessLog'[Len(accessLog')].id = Head(sendBuf).id
                 /\ atEnd(Head(sendBuf)) \/ ret' < 0
          /\ accessLog' # accessLog =>
                 /\ Len(sendBuf') = Len(sendBuf) - 1
                 /\ SubSeq(accessLog', 1, Len(accessLog)) = accessLog
          /\ destroyed' # destroyed =>
                 /\ sendBuf' = <<>>
                 /\ accessLog' = accessLog]_vars

C17_Witness ==
    /\ destroyed
    /\ nextId = 2
    /\ Len(accessLog) = 1
    /\ sendBuf = <<>>

\* --------------------------------------- send under edge-triggered readiness
\* The readiness notifier is outside this file.  The handle is registered for
\* edge-triggered write interest; the kernel raises a writable event when its
\* send buffer goes from full to having room; a (re-)registration raises one
\* if there is room at that moment.
Register ==
    /\ wev' = (wev \/ room)
    /\ room' = room

\* The path that enqueues a buffer triggers the first send attempt by
\* registering the handle again.
EnqueueNotified ==
    /\ Enqueue
    /\ Register

\* The notifier delivers the pending writable event by calling send().
SendOnWritable ==
    /\ wev
    /\ SendEnter
    /\ wev' = FALSE
    /\ room' = room

\* tf_send() against the kernel's send buffer: with no room it takes nothing,
\* with room it takes at least one byte or fails for good, and taking bytes
\* may fill the buffer.
SendWriteKernel ==
    /\ SendWrite
    /\ wev' = wev
    /\ IF syscalls' = syscalls
          THEN room' = room
          ELSE IF room
                  THEN /\ err' # EAGAIN
                       /\ len' # 0
                       /\ IF len' > 0 THEN room' \in BOOLEAN ELSE room' = room
                  ELSE /\ len' <= 0
                       /\ err' \in {EAGAIN, NOERR}
                       /\ room' = room

\* Line 221: modifyPoll() registers the handle again.
SendFinishNotified ==
    /\ SendFinish
    /\ IF modifyPolls' > modifyPolls THEN Register ELSE UNCHANGED pollVars

SendReturnNotified ==
    /\ SendReturn
    /\ UNCHANGED pollVars

\* The peer takes data: the kernel's send buffer has room again, which is a
\* writable edge.
KernelDrain ==
    /\ ~room
    /\ room' = TRUE
    /\ wev' = TRUE
    /\ UNCHANGED <<sendVars, lifeVars, reqVars, recvVars, fdVars, accVars>>

NextProgress ==
    \/ EnqueueNotified
    \/ SendOnWritable
    \/ SendWriteKernel
    \/ SendFinishNotified
    \/ SendReturnNotified
    \/ KernelDrain

\* The notifier keeps delivering events, a running send() keeps running, and
\* the peer keeps taking data.
SpecProgress ==
    /\ Init
    /\ [][NextProgress]_vars
    /\ WF_vars(SendOnWritable)
    /\ WF_vars(SendWriteKernel)
    /\ WF_vars(SendFinishNotified)
    /\ WF_vars(SendReturnNotified)
    /\ WF_vars(KernelDrain)

InQueue(id) == \E i \in 1..Len(sendBuf) : sendBuf[i].id = id

====
